---- MODULE Spec2Model ----
(***************************************************************************)
(* Model of scripts/convert_excel.py: the batch conversion of the weekly   *)
(* report workbook into the five JSON documents of the dashboard.          *)
(*                                                                         *)
(* Representation.                                                         *)
(*   - A text value is the sequence of its code points ("cmoa" is          *)
(*     <<99, 109, 111, 97>>), so that trimming, case and the lexicographic *)
(*     order Python and pandas sort by are computed, not assumed.          *)
(*   - NaN is the missing cell (pandas NaN / NaT / None).                  *)
(*   - A number is held in units of 1/Denom, so that int() truncates.      *)
(*   - A timestamp is the triple <<year, month, day>>.                     *)
(*   - A DataFrame is [columns |-> set of column names, rows |-> sequence  *)
(*     of row records]; reading a column that is not in `columns` is the   *)
(*     KeyError that ends the run.                                         *)
(***************************************************************************)
EXTENDS Integers, Sequences, FiniteSets, TLC

VARIABLES
    pc,                 \* position of main(): the next step to run
    exitCode,           \* process exit status, -1 while running
    isfile,             \* os.path.isfile(excel_path)
    outputDir,          \* TRUE once os.makedirs(OUTPUT_DIR) has run
    rawSheet,           \* the Daily_raw sheet as read_excel returns it
    titleSheet,         \* the Title sheet as read_excel returns it
    df_raw,             \* cleaned sales table
    df_title,           \* catalog table
    written,            \* names of the files written so far, in order
    daily_sales,        \* content of daily_sales.json
    monthly_summary,    \* content of monthly_summary.json
    title_summary,      \* content of title_summary.json
    platform_summary,   \* content of platform_summary.json
    title_master        \* content of title_master.json

vars == <<pc, exitCode, isfile, outputDir, rawSheet, titleSheet, df_raw, df_title,
          written, daily_sales, monthly_summary, title_summary, platform_summary,
          title_master>>

-----------------------------------------------------------------------------
(* Bounds of the model *)

MaxRows == 2        \* rows per sheet in the generated input families
MaxPad == 1         \* whitespace characters on either side of a channel cell
Denom == 2          \* numbers are multiples of 1/Denom

-----------------------------------------------------------------------------
(* Values *)

NaN == <<-1>>
isna(x) == x = NaN
notna(x) == x # NaN

EmptyStr == <<>>

\* characters str.strip() removes: tab, LF, VT, FF, CR, space
Whitespace == {9, 10, 11, 12, 13, 32}

RECURSIVE lstrip(_)
lstrip(s) ==
    IF s = <<>> THEN s
    ELSE IF Head(s) \in Whitespace THEN lstrip(Tail(s)) ELSE s

RECURSIVE rstrip(_)
rstrip(s) ==
    IF s = <<>> THEN s
    ELSE IF s[Len(s)] \in Whitespace THEN rstrip(SubSeq(s, 1, Len(s) - 1)) ELSE s

strip(s) == rstrip(lstrip(s))

\* Python's order on str: code point by code point, a proper prefix first
RECURSIVE StrLess(_, _)
StrLess(a, b) ==
    IF b = <<>> THEN FALSE
    ELSE IF a = <<>> THEN TRUE
    ELSE IF Head(a) # Head(b) THEN Head(a) < Head(b)
    ELSE StrLess(Tail(a), Tail(b))

\* sorted(S) for a set of text values
RECURSIVE SortedStrs(_)
SortedStrs(S) ==
    IF S = {} THEN <<>>
    ELSE LET m == CHOOSE x \in S : \A y \in S \ {x} : StrLess(x, y)
         IN  <<m>> \o SortedStrs(S \ {m})

RECURSIVE SumSeq(_)
SumSeq(s) == IF s = <<>> THEN 0 ELSE Head(s) + SumSeq(Tail(s))

Range(s) == {s[i] : i \in 1..Len(s)}

\* int(x) of a non-negative number held in units of 1/Denom
IntOf(x) == x \div Denom

\* a stable descending sort: the k-th element is the one with k-1 elements before it
StableDescOrder(keys) ==
    [k \in 1..Len(keys) |->
        CHOOSE i \in 1..Len(keys) :
            Cardinality({j \in 1..Len(keys) :
                \/ keys[j] > keys[i]
                \/ keys[j] = keys[i] /\ j < i}) = k - 1]

-----------------------------------------------------------------------------
(* Configuration and normalize_channel *)

piccoma == <<112, 105, 99, 99, 111, 109, 97>>
Piccoma == <<80, 105, 99, 99, 111, 109, 97>>
cmoa == <<99, 109, 111, 97>>
CMOA == <<67, 77, 79, 65>>

CHANNEL_NORMALIZE ==
    (piccoma :> piccoma) @@ (Piccoma :> piccoma) @@ (cmoa :> cmoa) @@ (CMOA :> cmoa)

normalize_channel_nostrip(raw) ==
    IF isna(raw) THEN EmptyStr
    ELSE IF raw \in DOMAIN CHANNEL_NORMALIZE THEN CHANNEL_NORMALIZE[raw] ELSE raw

normalize_channel(raw) ==
    IF isna(raw) THEN EmptyStr
    ELSE LET r == strip(raw)
         IN  IF r \in DOMAIN CHANNEL_NORMALIZE THEN CHANNEL_NORMALIZE[r] ELSE r

-----------------------------------------------------------------------------
(* Cell conversions of the Normalizer *)

IsLeap(y) == (y % 4 = 0 /\ y % 100 # 0) \/ y % 400 = 0

DaysInMonth(y, m) ==
    IF m = 2 THEN (IF IsLeap(y) THEN 29 ELSE 28)
    ELSE IF m \in {4, 6, 9, 11} THEN 30 ELSE 31

\* pd.to_datetime(cell, errors="coerce"): a date cell is NaN or a year-month-day
\* value; one that names no calendar day does not parse and becomes NaT
to_datetime(cell) ==
    IF isna(cell) THEN NaN
    ELSE IF /\ Len(cell) = 3
            /\ cell[1] \in 1..9999
            /\ cell[2] \in 1..12
            /\ cell[3] \in 1..DaysInMonth(cell[1], cell[2])
         THEN cell
         ELSE NaN

Pad2(n) == <<48 + (n \div 10), 48 + (n % 10)>>
Pad4(n) == <<48 + (n \div 1000), 48 + ((n \div 100) % 10)>> \o Pad2(n % 100)

\* Timestamp.strftime("%Y-%m-%d")
strftime(t) == Pad4(t[1]) \o <<45>> \o Pad2(t[2]) \o <<45>> \o Pad2(t[3])

\* str(Timestamp.to_period("M"))
to_period_M(t) == Pad4(t[1]) \o <<45>> \o Pad2(t[2])

\* the decimal value of a text of digits
RECURSIVE DigitsValue(_)
DigitsValue(s) ==
    IF s = <<>> THEN 0
    ELSE 10 * DigitsValue(SubSeq(s, 1, Len(s) - 1)) + (s[Len(s)] - 48)

\* A sales cell is [kind, num, str]: a number cell (num, in units of 1/Denom), a
\* text cell (str) or an empty cell.  pd.to_numeric(cell, errors="coerce") gives
\* [nan, v]: a text of digits parses, any other text becomes NaN.
to_numeric(cell) ==
    IF cell.kind = "num" THEN [nan |-> FALSE, v |-> cell.num]
    ELSE IF /\ cell.kind = "str"
            /\ cell.str # <<>>
            /\ \A i \in 1..Len(cell.str) : cell.str[i] \in 48..57
         THEN [nan |-> FALSE, v |-> Denom * DigitsValue(cell.str)]
         ELSE [nan |-> TRUE, v |-> 0]

\* Series.fillna(0)
fillna0(x) == IF x.nan THEN 0 ELSE x.v

\* Series.fillna("")
fillna_str(x) == IF isna(x) THEN EmptyStr ELSE x

-----------------------------------------------------------------------------
(* Loader: column renames *)

\* The catalog header of the series-name column is Japanese text; the model
\* spells it "Series".
col_map_raw ==
    [h \in {"Title(JP)", "Title(KR)", "Channel Title(JP)", "Channel", "Date",
            "Sales(without tax)"} |->
        CASE h = "Title(JP)" -> "titleJP"
          [] h = "Title(KR)" -> "titleKR"
          [] h = "Channel Title(JP)" -> "channelTitleJP"
          [] h = "Channel" -> "channel"
          [] h = "Date" -> "date"
          [] h = "Sales(without tax)" -> "sales"]

col_map_title ==
    [h \in {"Channel Title(JP)", "Title(KR)", "Title(JP)", "Series", "PF"} |->
        CASE h = "Channel Title(JP)" -> "channelTitleJP"
          [] h = "Title(KR)" -> "titleKR"
          [] h = "Title(JP)" -> "titleJP"
          [] h = "Series" -> "seriesName"
          [] h = "PF" -> "platform"]

\* DataFrame.rename(columns=m): headers the map does not name are kept
rename(columns, m) == {IF h \in DOMAIN m THEN m[h] ELSE h : h \in columns}

-----------------------------------------------------------------------------
(* Normalizer: the cleaned sales table *)

\* the row filter df_raw["sales"] > 0
KeepSales_nonneg(s) == s >= 0

KeepSales(s) == s > 0

\* the row filter of dropna(subset=["date"])
KeepDate(d) == notna(d)

\* Rows of Daily_raw after normalisation, date parsing, the two filters and the
\* convenience columns.  idx is the DataFrame index label, the 0-based position
\* of the row in the sheet, which the filters keep.
CleanRaw(rows) ==
    LET parsed == [i \in 1..Len(rows) |->
                     [idx |-> i - 1,
                      titleJP |-> rows[i].titleJP,
                      titleKR |-> rows[i].titleKR,
                      channel |-> normalize_channel(rows[i].channel),
                      date |-> to_datetime(rows[i].date),
                      sales |-> rows[i].sales]]
        dated == SelectSeq(parsed, LAMBDA r : KeepDate(r.date))
        numeric == [i \in 1..Len(dated) |->
                     [idx |-> dated[i].idx,
                      titleJP |-> dated[i].titleJP,
                      titleKR |-> dated[i].titleKR,
                      channel |-> dated[i].channel,
                      date |-> dated[i].date,
                      sales |-> fillna0(to_numeric(dated[i].sales))]]
        positive == SelectSeq(numeric, LAMBDA r : KeepSales(r.sales))
    IN  [i \in 1..Len(positive) |->
            [idx |-> positive[i].idx,
             titleJP |-> positive[i].titleJP,
             titleKR |-> positive[i].titleKR,
             channel |-> positive[i].channel,
             date |-> positive[i].date,
             sales |-> positive[i].sales,
             date_str |-> strftime(positive[i].date),
             month |-> to_period_M(positive[i].date)]]

\* Rows of the Title sheet with the platform column normalised when it exists
CleanTitle(columns, rows) ==
    [i \in 1..Len(rows) |->
        [titleJP |-> rows[i].titleJP,
         titleKR |-> rows[i].titleKR,
         seriesName |-> rows[i].seriesName,
         platform |-> IF "platform" \in columns
                        THEN normalize_channel(rows[i].platform)
                        ELSE rows[i].platform]]

-----------------------------------------------------------------------------
(* Aggregator *)

\* head(10) of the per-platform title ranking
TopN == 10

SumSales(rows) == SumSeq([i \in 1..Len(rows) |-> rows[i].sales])

Column(rows, c) == [i \in 1..Len(rows) |-> rows[i][c]]

\* Keys that DataFrame.groupby(column) iterates over: with the defaults sort=True
\* and dropna=True, the distinct non-missing values in ascending order
GroupKeys(values) == SortedStrs(Range(values) \ {NaN})

\* the rows of one group, in table order
Group(rows, c, key) == SelectSeq(rows, LAMBDA r : r[c] = key)

\* ---- daily_sales.json ----
DailyRecords(rows) ==
    [i \in 1..Len(rows) |->
        [titleKR |-> fillna_str(rows[i].titleKR),
         titleJP |-> fillna_str(rows[i].titleJP),
         channel |-> fillna_str(rows[i].channel),
         date |-> rows[i].date_str,
         sales |-> rows[i].sales]]

\* ---- monthly_summary.json ----
MonthlySummary(rows) ==
    LET months == GroupKeys(Column(rows, "month"))
        channels == Range(GroupKeys(Column(rows, "channel")))
        val(m, c) == SumSales(Group(Group(rows, "month", m), "channel", c))
    IN  [k \in 1..Len(months) |->
            [month |-> months[k],
             totalSales |-> IntOf(SumSales(Group(rows, "month", months[k]))),
             platforms |-> [c \in {c \in channels : val(months[k], c) > 0} |->
                              IntOf(val(months[k], c))]]]

\* ---- title_summary.json ----

\* title_kr of one group
title_kr_first_notna(grp) ==
    LET kr == Column(grp, "titleKR")
    IN  IF \E i \in 1..Len(kr) : notna(kr[i])
        THEN kr[CHOOSE i \in 1..Len(kr) :
                    notna(kr[i]) /\ \A j \in 1..(i - 1) : isna(kr[j])]
        ELSE EmptyStr

title_kr_of(grp) == IF notna(grp[1].titleKR) THEN grp[1].titleKR ELSE EmptyStr

\* seriesName of the first catalog row of the title, "" if none or missing
series_name_of(trows, title_jp) ==
    LET series_match == Column(Group(trows, "titleJP", title_jp), "seriesName")
    IN  IF Len(series_match) > 0 /\ notna(series_match[1])
        THEN series_match[1] ELSE EmptyStr

\* list.sort(key=lambda x: x["totalSales"], reverse=True)
sort_by_totalSales_none(entries) == entries

sort_by_totalSales(entries) ==
    LET order == StableDescOrder(Column(entries, "totalSales"))
    IN  [k \in 1..Len(entries) |-> entries[order[k]]]

\* The per-title fields the dashboard reads that no property below is about
\* (platforms, dailyAvg, peak, first/last date, monthly trend) are left out.
TitleSummary(rows, trows) ==
    LET keys == GroupKeys(Column(rows, "titleJP"))
    IN  sort_by_totalSales(
            [k \in 1..Len(keys) |->
                LET grp == Group(rows, "titleJP", keys[k])
                IN  [titleKR |-> title_kr_of(grp),
                     titleJP |-> fillna_str(keys[k]),
                     seriesName |-> series_name_of(trows, keys[k]),
                     totalSales |-> IntOf(SumSales(grp))]])

\* ---- platform_summary.json ----

PairLess(p, q) == IF p[1] # q[1] THEN StrLess(p[1], q[1]) ELSE StrLess(p[2], q[2])

RECURSIVE SortedPairs(_)
SortedPairs(S) ==
    IF S = {} THEN <<>>
    ELSE LET m == CHOOSE x \in S : \A y \in S \ {x} : PairLess(x, y)
         IN  <<m>> \o SortedPairs(S \ {m})

\* Series.head(n)
head(s, n) == SubSeq(s, 1, IF Len(s) < n THEN Len(s) ELSE n)

\* groupby(["titleKR", "titleJP"])["sales"].sum().sort_values(ascending=False)
\* .head(10): rows with either key missing are dropped by groupby.  The default
\* sort kind promises no order among equal sums; the model lists them in key
\* order, and no property below reads the order among equal sums.
TopTitles(grp) ==
    LET pairs == SortedPairs({<<grp[i].titleKR, grp[i].titleJP>> : i \in
                    {i \in 1..Len(grp) : notna(grp[i].titleKR) /\ notna(grp[i].titleJP)}})
        sums == [k \in 1..Len(pairs) |->
                    SumSales(SelectSeq(grp, LAMBDA r :
                        r.titleKR = pairs[k][1] /\ r.titleJP = pairs[k][2]))]
        order == StableDescOrder(sums)
        top_titles_raw == head([k \in 1..Len(pairs) |-> order[k]], TopN)
    IN  [k \in 1..Len(top_titles_raw) |->
            [titleKR |-> fillna_str(pairs[top_titles_raw[k]][1]),
             titleJP |-> fillna_str(pairs[top_titles_raw[k]][2]),
             sales |-> IntOf(sums[top_titles_raw[k]])]]

\* Series.nunique(): distinct non-missing values
nunique(values) == Cardinality(Range(values) \ {NaN})

\* The monthly trend of a platform is left out.
PlatformSummary(rows) ==
    LET keys == GroupKeys(Column(rows, "channel"))
    IN  sort_by_totalSales(
            [k \in 1..Len(keys) |->
                LET grp == Group(rows, "channel", keys[k])
                IN  [platform |-> keys[k],
                     totalSales |-> IntOf(SumSales(grp)),
                     titleCount |-> nunique(Column(grp, "titleJP")),
                     topTitles |-> TopTitles(grp)]])

\* ---- title_master.json ----

\* first value of the column that is present, "" if none
first_notna(values) ==
    IF \E i \in 1..Len(values) : notna(values[i])
    THEN values[CHOOSE i \in 1..Len(values) :
                    notna(values[i]) /\ \A j \in 1..(i - 1) : isna(values[j])]
    ELSE EmptyStr

platforms_list_keep_empty(columns, grp) ==
    IF "platform" \in columns
    THEN SortedStrs({normalize_channel(p) : p \in
            {p \in Range(Column(grp, "platform")) : notna(p)}})
    ELSE <<>>

platforms_list_of(columns, grp) ==
    IF "platform" \in columns
    THEN SortedStrs({normalize_channel(p) : p \in
            {p \in Range(Column(grp, "platform")) : notna(p) /\ strip(p) # EmptyStr}})
    ELSE <<>>

\* The loop skips a missing key; groupby yields no key twice, so its `seen` test
\* skips nothing more.
TitleMaster(columns, trows) ==
    LET keys == SelectSeq(GroupKeys(Column(trows, "titleJP")), LAMBDA t : ~isna(t))
    IN  [k \in 1..Len(keys) |->
            LET grp == Group(trows, "titleJP", keys[k])
            IN  [titleKR |-> first_notna(Column(grp, "titleKR")),
                 titleJP |-> keys[k],
                 seriesName |-> first_notna(Column(grp, "seriesName")),
                 platforms |-> platforms_list_of(columns, grp)]]

-----------------------------------------------------------------------------
(* main() *)

FILES == <<"daily_sales.json", "monthly_summary.json", "title_summary.json",
           "platform_summary.json", "title_master.json">>

NoFrame == [columns |-> {}, rows |-> <<>>]

\* Columns main() reads without a test: a missing one is a KeyError.
RawKeyError(columns) == ~({"channel", "date", "sales"} \subseteq columns)

DailyKeyError(columns) ==
    ~({"titleKR", "titleJP", "channel", "date_str", "sales"} \subseteq columns)

\* raised by the series lookup in the body of the loop over the title groups
TitleSummaryKeyError(rows, tcolumns) ==
    /\ GroupKeys(Column(rows, "titleJP")) # <<>>
    /\ ~({"titleJP", "seriesName"} \subseteq tcolumns)

\* raised by the groupby, or by the column reads in the body of its loop
TitleMasterKeyError_platform(tcolumns, trows) ==
    \/ ~({"titleJP", "platform"} \subseteq tcolumns)
    \/ /\ GroupKeys(Column(trows, "titleJP")) # <<>>
       /\ ~({"titleKR", "seriesName"} \subseteq tcolumns)

TitleMasterKeyError(tcolumns, trows) ==
    \/ "titleJP" \notin tcolumns
    \/ /\ GroupKeys(Column(trows, "titleJP")) # <<>>
       /\ ~({"titleKR", "seriesName"} \subseteq tcolumns)

write_json_first(filename) == written' = <<filename>> \o written

\* write_json(data, filename); clean_for_json leaves every finite number's value
\* as it is, and no NaN reaches it in the fields modelled
write_json(filename) == written' = Append(written, filename)

\* sys.exit(1), or an uncaught exception: exit status 1 either way
Abort == pc' = "failed" /\ exitCode' = 1

CheckFile_nocheck ==
    /\ pc = "check_file"
    /\ pc' = "read_raw" /\ outputDir' = TRUE
    /\ UNCHANGED <<exitCode, isfile, rawSheet, titleSheet, df_raw, df_title, written,
                   daily_sales, monthly_summary, title_summary, platform_summary,
                   title_master>>

CheckFile ==
    /\ pc = "check_file"
    /\ IF ~isfile
       THEN Abort /\ UNCHANGED outputDir
       ELSE pc' = "read_raw" /\ outputDir' = TRUE /\ UNCHANGED exitCode
    /\ UNCHANGED <<isfile, rawSheet, titleSheet, df_raw, df_title, written,
                   daily_sales, monthly_summary, title_summary, platform_summary,
                   title_master>>

ReadDailyRaw ==
    /\ pc = "read_raw"
    /\ LET columns == rename(rawSheet.columns, col_map_raw)
       IN  IF RawKeyError(columns)
           THEN Abort /\ UNCHANGED df_raw
           ELSE /\ df_raw' = [columns |-> columns \cup {"date_str", "month"},
                              rows |-> CleanRaw(rawSheet.rows)]
                /\ pc' = "read_title"
                /\ UNCHANGED exitCode
    /\ UNCHANGED <<isfile, outputDir, rawSheet, titleSheet, df_title, written,
                   daily_sales, monthly_summary, title_summary, platform_summary,
                   title_master>>

ReadTitle ==
    /\ pc = "read_title"
    /\ LET columns == rename(titleSheet.columns, col_map_title)
       IN  df_title' = [columns |-> columns, rows |-> CleanTitle(columns, titleSheet.rows)]
    /\ pc' = "daily_sales"
    /\ UNCHANGED <<exitCode, isfile, outputDir, rawSheet, titleSheet, df_raw, written,
                   daily_sales, monthly_summary, title_summary, platform_summary,
                   title_master>>

GenDailySales ==
    /\ pc = "daily_sales"
    /\ IF DailyKeyError(df_raw.columns)
       THEN Abort /\ UNCHANGED <<daily_sales, written>>
       ELSE /\ daily_sales' = DailyRecords(df_raw.rows)
            /\ write_json(FILES[1])
            /\ pc' = "monthly_summary"
            /\ UNCHANGED exitCode
    /\ UNCHANGED <<isfile, outputDir, rawSheet, titleSheet, df_raw, df_title,
                   monthly_summary, title_summary, platform_summary, title_master>>

GenMonthlySummary ==
    /\ pc = "monthly_summary"
    /\ monthly_summary' = MonthlySummary(df_raw.rows)
    /\ write_json(FILES[2])
    /\ pc' = "title_summary"
    /\ UNCHANGED <<exitCode, isfile, outputDir, rawSheet, titleSheet, df_raw, df_title,
                   daily_sales, title_summary, platform_summary, title_master>>

GenTitleSummary ==
    /\ pc = "title_summary"
    /\ IF TitleSummaryKeyError(df_raw.rows, df_title.columns)
       THEN Abort /\ UNCHANGED <<title_summary, written>>
       ELSE /\ title_summary' = TitleSummary(df_raw.rows, df_title.rows)
            /\ write_json(FILES[3])
            /\ pc' = "platform_summary"
            /\ UNCHANGED exitCode
    /\ UNCHANGED <<isfile, outputDir, rawSheet, titleSheet, df_raw, df_title,
                   daily_sales, monthly_summary, platform_summary, title_master>>

GenPlatformSummary ==
    /\ pc = "platform_summary"
    /\ platform_summary' = PlatformSummary(df_raw.rows)
    /\ write_json(FILES[4])
    /\ pc' = "title_master"
    /\ UNCHANGED <<exitCode, isfile, outputDir, rawSheet, titleSheet, df_raw, df_title,
                   daily_sales, monthly_summary, title_summary, title_master>>

GenTitleMaster ==
    /\ pc = "title_master"
    /\ IF TitleMasterKeyError(df_title.columns, df_title.rows)
       THEN Abort /\ UNCHANGED <<title_master, written>>
       ELSE /\ title_master' = TitleMaster(df_title.columns, df_title.rows)
            /\ write_json(FILES[5])
            /\ pc' = "finish"
            /\ UNCHANGED exitCode
    /\ UNCHANGED <<isfile, outputDir, rawSheet, titleSheet, df_raw, df_title,
                   daily_sales, monthly_summary, title_summary, platform_summary>>

\* main() returns: exit status 0
Finish ==
    /\ pc = "finish"
    /\ pc' = "done" /\ exitCode' = 0
    /\ UNCHANGED <<isfile, outputDir, rawSheet, titleSheet, df_raw, df_title, written,
                   daily_sales, monthly_summary, title_summary, platform_summary,
                   title_master>>

Next ==
    \/ CheckFile
    \/ ReadDailyRaw
    \/ ReadTitle
    \/ GenDailySales
    \/ GenMonthlySummary
    \/ GenTitleSummary
    \/ GenPlatformSummary
    \/ GenTitleMaster
    \/ Finish

-----------------------------------------------------------------------------
(* Inputs *)

RawHeaders == DOMAIN col_map_raw
TitleHeaders == DOMAIN col_map_title

\* text values used in the inputs: "A", "B", "k", "m", "S"
TitleA == <<65>>
TitleB == <<66>>
KrK == <<107>>
KrM == <<109>>
SeriesS == <<83>>

Num(v) == [kind |-> "num", num |-> v, str |-> EmptyStr]
Text(s) == [kind |-> "str", num |-> 0, str |-> s]
Empty == [kind |-> "nan", num |-> 0, str |-> EmptyStr]

\* a sheet that lacks a column has no cells in it
RawRowIn(columns, r) ==
    [titleJP |-> IF "Title(JP)" \in columns THEN r.titleJP ELSE NaN,
     titleKR |-> IF "Title(KR)" \in columns THEN r.titleKR ELSE NaN,
     channel |-> IF "Channel" \in columns THEN r.channel ELSE NaN,
     date |-> IF "Date" \in columns THEN r.date ELSE NaN,
     sales |-> IF "Sales(without tax)" \in columns THEN r.sales ELSE Empty]

TitleRowIn(columns, r) ==
    [titleJP |-> IF "Title(JP)" \in columns THEN r.titleJP ELSE NaN,
     titleKR |-> IF "Title(KR)" \in columns THEN r.titleKR ELSE NaN,
     seriesName |-> IF "Series" \in columns THEN r.seriesName ELSE NaN,
     platform |-> IF "PF" \in columns THEN r.platform ELSE NaN]

RawSheetOf(columns, rows) ==
    [columns |-> columns, rows |-> [i \in 1..Len(rows) |-> RawRowIn(columns, rows[i])]]

TitleSheetOf(columns, rows) ==
    [columns |-> columns, rows |-> [i \in 1..Len(rows) |-> TitleRowIn(columns, rows[i])]]

\* all sequences over S of length at most n
SeqUpTo(S, n) == UNION {[1..k -> S] : k \in 0..n}

Start(file, raw, title) ==
    /\ pc = "check_file"
    /\ exitCode = -1
    /\ isfile = file
    /\ outputDir = FALSE
    /\ rawSheet = raw
    /\ titleSheet = title
    /\ df_raw = NoFrame
    /\ df_title = NoFrame
    /\ written = <<>>
    /\ daily_sales = <<>>
    /\ monthly_summary = <<>>
    /\ title_summary = <<>>
    /\ platform_summary = <<>>
    /\ title_master = <<>>

SampleRawRow ==
    [titleJP |-> TitleA, titleKR |-> KrK, channel |-> Piccoma,
     date |-> <<2024, 1, 1>>, sales |-> Num(3 * Denom)]

SampleTitleRow ==
    [titleJP |-> TitleA, titleKR |-> KrK, seriesName |-> SeriesS, platform |-> CMOA]

\* Any set of the expected columns may be missing from either sheet; the path
\* may name no file.
Init ==
    \/ Start(FALSE, NoFrame, NoFrame)
    \/ \E rc \in SUBSET RawHeaders, tc \in SUBSET TitleHeaders,
          rr \in SeqUpTo({SampleRawRow}, MaxRows), tr \in SeqUpTo({SampleTitleRow}, MaxRows) :
            Start(TRUE, RawSheetOf(rc, rr), TitleSheetOf(tc, tr))

Spec == Init /\ [][Next]_vars

\* ---- input families: each varies the cells one group of properties is about ----

MaxTitleRows == 3   \* rows per sheet in the title and catalog families

AllRawHeaders(rows) == [columns |-> RawHeaders, rows |-> rows]
AllTitleHeaders(rows) == [columns |-> TitleHeaders, rows |-> rows]

\* "xx", "n/a", "7", " ", " cmoa", "zz"
TextXX == <<120, 120>>
TextNA == <<110, 47, 97>>
Text7 == <<55>>
Blank == <<32>>
PaddedCmoa == <<32>> \o cmoa
Other == <<122, 122>>

\* Cleaning: the date and the sales cell of each row vary
DateCells == {NaN, TextXX, <<2024, 1, 1>>, <<2024, 2, 29>>, <<2023, 2, 29>>, <<2024, 13, 1>>}
SalesCells == {Empty, Text(TextNA), Text(Text7), Num(0), Num(-1), Num(1), Num(2 * Denom)}

CleanFamily ==
    {[titleJP |-> TitleA, titleKR |-> KrK, channel |-> piccoma, date |-> d, sales |-> v] :
        d \in DateCells, v \in SalesCells}

InitClean ==
    \E rr \in SeqUpTo(CleanFamily, MaxRows) :
        Start(TRUE, AllRawHeaders(rr), AllTitleHeaders(<<SampleTitleRow>>))

SpecClean == InitClean /\ [][Next]_vars

\* Title groups: the two titles, the amount, and whether they are present vary
TitleFamily ==
    {[titleJP |-> jp, titleKR |-> kr, channel |-> piccoma, date |-> <<2024, 1, 1>>,
      sales |-> Num(v)] :
        jp \in {NaN, TitleA, TitleB}, kr \in {NaN, KrK, KrM}, v \in {1, Denom}}

InitTitle ==
    \E rr \in SeqUpTo(TitleFamily, MaxTitleRows) :
        Start(TRUE, AllRawHeaders(rr), AllTitleHeaders(<<SampleTitleRow>>))

SpecTitle == InitTitle /\ [][Next]_vars

\* Aggregation: titles, channel, month and amount vary
AggFamily ==
    {[titleJP |-> jp, titleKR |-> kr, channel |-> ch, date |-> d, sales |-> Num(v)] :
        jp \in {NaN, TitleA, TitleB}, kr \in {NaN, KrK, KrM}, ch \in {Piccoma, cmoa},
        d \in {<<2024, 1, 1>>, <<2024, 2, 1>>}, v \in {1, Denom}}

\* Ranking: one platform with one more title than the ranking keeps, one of the
\* titles selling more than the others and one possibly without its titleKR
RankingRows(best, nokr) ==
    [i \in 1..(TopN + 1) |->
        [titleJP |-> <<64 + i>>,
         titleKR |-> IF i = nokr THEN NaN ELSE KrK,
         channel |-> cmoa,
         date |-> <<2024, 1, 1>>,
         sales |-> Num(IF i = best THEN 2 * Denom ELSE Denom)]]

InitAgg ==
    \/ \E rr \in SeqUpTo(AggFamily, MaxRows) :
            Start(TRUE, AllRawHeaders(rr), AllTitleHeaders(<<SampleTitleRow>>))
    \/ \E best \in 0..(TopN + 1), nokr \in 0..(TopN + 1) :
            Start(TRUE, AllRawHeaders(RankingRows(best, nokr)),
                  AllTitleHeaders(<<SampleTitleRow>>))

SpecAgg == InitAgg /\ [][Next]_vars

\* Catalog: the title and the platform cell of each catalog row vary, and the
\* platform column may be missing
MasterFamily ==
    {[titleJP |-> jp, titleKR |-> KrK, seriesName |-> SeriesS, platform |-> pf] :
        jp \in {NaN, TitleA, TitleB},
        pf \in {NaN, piccoma, Piccoma, Blank, PaddedCmoa, Other}}

InitMaster ==
    \E tr \in SeqUpTo(MasterFamily, MaxTitleRows), tc \in {TitleHeaders, TitleHeaders \ {"PF"}} :
        Start(TRUE, AllRawHeaders(<<SampleRawRow>>), TitleSheetOf(tc, tr))

SpecMaster == InitMaster /\ [][Next]_vars

\* Channel names: every mix of upper and lower case of the known names, and
\* other texts, with whitespace around them
Lower(c) == IF c \in 65..90 THEN c + 32 ELSE c
Upper(c) == IF c \in 97..122 THEN c - 32 ELSE c
LowerStr(s) == [i \in 1..Len(s) |-> Lower(s[i])]

RECURSIVE CaseVariantsOf(_)
CaseVariantsOf(w) ==
    IF w = <<>> THEN {<<>>}
    ELSE {<<c>> \o v : c \in {Lower(Head(w)), Upper(Head(w))}, v \in CaseVariantsOf(Tail(w))}

Pads == UNION {[1..k -> {9, 32}] : k \in 0..MaxPad}

ChannelCells ==
    {NaN} \cup
    {l \o w \o r : l \in Pads, r \in Pads,
                   w \in CaseVariantsOf(piccoma) \cup CaseVariantsOf(cmoa)
                         \cup {EmptyStr, Other, <<97, 32, 98>>}}

InitNorm ==
    \E ch \in ChannelCells :
        Start(TRUE,
              AllRawHeaders(<<[SampleRawRow EXCEPT !.channel = ch]>>),
              AllTitleHeaders(<<[SampleTitleRow EXCEPT !.platform = ch]>>))

SpecNorm == InitNorm /\ [][Next]_vars

-----------------------------------------------------------------------------
(* Properties *)

Written(f) == f \in Range(written)

SumTotals(entries) == SumSeq([i \in 1..Len(entries) |-> entries[i].totalSales])

\* rows of Daily_raw whose date parses and whose coerced sales are positive
DateParses(cell) == notna(cell) /\ Len(cell) = 3 /\ to_datetime(cell) = cell
CoercedSales(cell) == IF to_numeric(cell).nan THEN 0 ELSE to_numeric(cell).v
ValidRows == SelectSeq(rawSheet.rows, LAMBDA r : DateParses(r.date) /\ CoercedSales(r.sales) > 0)

\* C1: once daily_sales.json is written it holds, in sheet order, exactly one
\* record for each Daily_raw row whose date parses and whose sales, non-numeric
\* values coerced to zero, are strictly positive, and no other record.
C1_DailyIffValid ==
    Written("daily_sales.json") =>
        /\ Len(daily_sales) = Len(ValidRows)
        /\ \A i \in 1..Len(daily_sales) :
            /\ daily_sales[i].date = strftime(ValidRows[i].date)
            /\ daily_sales[i].sales = CoercedSales(ValidRows[i].sales)
            /\ daily_sales[i].titleJP = ValidRows[i].titleJP

\* a valid row is kept next to one dropped for its date and to one dropped for its sales
C1_Witness ==
    /\ Written("daily_sales.json")
    /\ Len(rawSheet.rows) = 2
    /\ Len(daily_sales) = 1
    /\ \E i \in 1..2 : DateParses(rawSheet.rows[i].date) /\ CoercedSales(rawSheet.rows[i].sales) <= 0

\* C2: the totals of the monthly, the title and the platform summary all add up
\* to the sum of sales over the cleaned records, records with a missing titleJP,
\* titleKR or channel included.
C2_SumConservation ==
    pc = "done" =>
        /\ Denom * SumTotals(monthly_summary) = SumSales(df_raw.rows)
        /\ SumTotals(title_summary) = SumTotals(monthly_summary)
        /\ SumTotals(platform_summary) = SumTotals(monthly_summary)

\* C2, whole amounts only: the title summary still loses the rows without a titleJP
C2_SumConservationWhole ==
    (pc = "done" /\ \A i \in 1..Len(df_raw.rows) : df_raw.rows[i].sales % Denom = 0) =>
        /\ Denom * SumTotals(monthly_summary) = SumSales(df_raw.rows)
        /\ SumTotals(title_summary) = SumTotals(monthly_summary)
        /\ SumTotals(platform_summary) = SumTotals(monthly_summary)

\* C3: when the path names no file the run stops at the check with exit status 1:
\* no directory made, no sheet read, no view computed, no file written.
C3_NotFoundIsFatal ==
    ~isfile =>
        /\ pc \in {"check_file", "failed"}
        /\ pc = "failed" => exitCode = 1
        /\ exitCode # 0
        /\ ~outputDir
        /\ df_raw = NoFrame /\ df_title = NoFrame
        /\ written = <<>>
        /\ daily_sales = <<>> /\ monthly_summary = <<>> /\ title_summary = <<>>
        /\ platform_summary = <<>> /\ title_master = <<>>

C3_Witness == ~isfile /\ pc = "failed" /\ exitCode = 1

\* C4 as stated: whatever expected columns a sheet lacks, the run never fails,
\* and a finished run has written all five files.
C4_MissingColumnsTolerated ==
    isfile => /\ pc # "failed"
              /\ pc = "done" => Len(written) = 5

ReadRawHeaders == {"Title(JP)", "Title(KR)", "Channel", "Date", "Sales(without tax)"}
ReadTitleHeaders == {"Title(JP)", "Title(KR)", "Series"}

\* C4 amended: the columns that may be missing are the catalog's platform column
\* and the Channel Title(JP) column of either sheet.  With every other expected
\* column there the run never fails, a finished run has written all five files,
\* and without the platform column every title-master entry has an empty
\* platforms list.  Without one of the Daily_raw columns Title(JP), Title(KR),
\* Channel, Date, Sales(without tax), or without the catalog's Title(JP), the run
\* never finishes.
C4_OnlyUnreadColumnsOptional ==
    isfile =>
        /\ (ReadRawHeaders \subseteq rawSheet.columns /\ ReadTitleHeaders \subseteq titleSheet.columns)
            => /\ pc # "failed"
               /\ pc = "done" => Len(written) = 5
               /\ (Written("title_master.json") /\ "PF" \notin titleSheet.columns)
                    => \A i \in 1..Len(title_master) : title_master[i].platforms = <<>>
        /\ (~(ReadRawHeaders \subseteq rawSheet.columns) \/ "Title(JP)" \notin titleSheet.columns)
            => pc \notin {"finish", "done"} /\ Len(written) < 5

C4_Witness ==
    /\ pc = "done"
    /\ "PF" \notin titleSheet.columns
    /\ "Channel Title(JP)" \notin rawSheet.columns
    /\ Len(title_master) = 1
    /\ title_master[1].platforms = <<>>

\* position of the first cleaned row of a title
FirstRow(title_jp) ==
    CHOOSE i \in 1..Len(df_raw.rows) :
        /\ df_raw.rows[i].titleJP = title_jp
        /\ \A j \in 1..(i - 1) : df_raw.rows[j].titleJP # title_jp

NonIncreasingTotals(entries) ==
    \A i \in 1..(Len(entries) - 1) : entries[i].totalSales >= entries[i + 1].totalSales

\* C5 as stated: title_summary.json is in non-increasing order of totalSales, and
\* entries with equal totalSales are in the order their titleJP first appears in
\* the table.
C5_TiesByFirstAppearance ==
    Written("title_summary.json") =>
        /\ NonIncreasingTotals(title_summary)
        /\ \A i \in 1..Len(title_summary), j \in 1..Len(title_summary) :
            (i < j /\ title_summary[i].totalSales = title_summary[j].totalSales)
                => FirstRow(title_summary[i].titleJP) < FirstRow(title_summary[j].titleJP)

\* C5 amended: title_summary.json is in non-increasing order of totalSales, and
\* entries with equal totalSales are in ascending order of titleJP, the order
\* groupby yields the groups in.
C5_TiesByTitle ==
    Written("title_summary.json") =>
        /\ NonIncreasingTotals(title_summary)
        /\ \A i \in 1..Len(title_summary), j \in 1..Len(title_summary) :
            (i < j /\ title_summary[i].totalSales = title_summary[j].totalSales)
                => StrLess(title_summary[i].titleJP, title_summary[j].titleJP)

\* three rows, two titles with equal totals, the later in the alphabet first in
\* the table
C5_Witness ==
    /\ Written("title_summary.json")
    /\ Len(title_summary) = 2
    /\ title_summary[1].totalSales = title_summary[2].totalSales
    /\ FirstRow(title_summary[2].titleJP) < FirstRow(title_summary[1].titleJP)
    /\ Len(df_raw.rows) = 3

\* the (titleKR, titleJP) pairs of a platform as the daily records show them,
\* a missing title being the empty text, and the sales of a pair
PairsOn(plat) ==
    {<<fillna_str(df_raw.rows[i].titleKR), fillna_str(df_raw.rows[i].titleJP)>> :
        i \in {i \in 1..Len(df_raw.rows) : df_raw.rows[i].channel = plat}}

PairSales(plat, pair) ==
    SumSales(SelectSeq(df_raw.rows, LAMBDA r :
        /\ r.channel = plat
        /\ fillna_str(r.titleKR) = pair[1]
        /\ fillna_str(r.titleJP) = pair[2]))

MinOf(a, b) == IF a < b THEN a ELSE b

\* C6: topTitles of every platform entry is the top 10 of the platform's
\* (titleKR, titleJP) pairs by summed sales: min(10, number of pairs) entries, in
\* non-increasing order of sales, each a pair of the platform with its sum, and
\* no pair left out sells more than a pair that is in.
C6_TopTitlesAreTop10 ==
    Written("platform_summary.json") =>
        \A e \in Range(platform_summary) :
            LET top == e.topTitles
                in == {<<top[k].titleKR, top[k].titleJP>> : k \in 1..Len(top)}
            IN  /\ Len(top) = MinOf(10, Cardinality(PairsOn(e.platform)))
                /\ \A k \in 1..(Len(top) - 1) : top[k].sales >= top[k + 1].sales
                /\ \A k \in 1..Len(top) :
                    /\ <<top[k].titleKR, top[k].titleJP>> \in PairsOn(e.platform)
                    /\ top[k].sales =
                         IntOf(PairSales(e.platform, <<top[k].titleKR, top[k].titleJP>>))
                /\ \A p \in in, q \in PairsOn(e.platform) \ in :
                    PairSales(e.platform, q) <= PairSales(e.platform, p)

CatalogKeys == {titleSheet.rows[i].titleJP : i \in 1..Len(titleSheet.rows)} \ {NaN, EmptyStr}

\* C7: title_master.json has exactly one entry for each distinct catalog titleJP
\* that is not missing or empty, no key twice and no empty key, and the platforms
\* of an entry are the normalised non-empty platform values of the catalog rows of
\* its key, each once, in strictly ascending order.
C7_MasterKeysAndPlatforms ==
    Written("title_master.json") =>
        /\ {title_master[k].titleJP : k \in 1..Len(title_master)} = CatalogKeys
        /\ Len(title_master) = Cardinality(CatalogKeys)
        /\ \A k \in 1..Len(title_master) :
            LET pl == title_master[k].platforms
                cells == {titleSheet.rows[i].platform : i \in
                            {i \in 1..Len(titleSheet.rows) :
                                titleSheet.rows[i].titleJP = title_master[k].titleJP}}
            IN  /\ \A i \in 1..(Len(pl) - 1) : StrLess(pl[i], pl[i + 1])
                /\ Range(pl) = {normalize_channel(c) : c \in cells} \ {EmptyStr}

\* one title on three catalog rows, two of them spellings of one platform, the
\* platforms listed out of order
C7_Witness ==
    /\ Written("title_master.json")
    /\ Len(titleSheet.rows) = 3
    /\ Len(title_master) = 1
    /\ titleSheet.rows[1].platform = piccoma
    /\ titleSheet.rows[2].platform = Piccoma
    /\ titleSheet.rows[3].platform = PaddedCmoa
    /\ title_master[1].platforms = <<cmoa, piccoma>>

\* t is raw without the whitespace at its two ends
IsTrimOf(t, raw) ==
    \E a \in 1..(Len(raw) + 1), b \in 0..Len(raw) :
        /\ t = SubSeq(raw, a, b)
        /\ \A i \in 1..(a - 1) : raw[i] \in Whitespace
        /\ \A i \in (b + 1)..Len(raw) : raw[i] \in Whitespace
        /\ t # <<>> => (t[1] \notin Whitespace /\ t[Len(t)] \notin Whitespace)

KnownSpellings == {piccoma, Piccoma, cmoa, CMOA}

\* the channel cell of the one row of the sheet, and what the cleaned table has for it
RawChannel == rawSheet.rows[1].channel
NormalizedChannel == df_raw.rows[1].channel
Normalized == pc \notin {"check_file", "read_raw", "failed"} /\ Len(df_raw.rows) = 1

\* C8 as stated: a value equal to a known spelling when trimmed and compared
\* without regard to case becomes the lower-case identifier, any other value is
\* only trimmed, and a missing or empty value becomes the empty text, never null.
C8_CaseInsensitive ==
    Normalized =>
        /\ notna(NormalizedChannel)
        /\ isna(RawChannel) => NormalizedChannel = EmptyStr
        /\ notna(RawChannel) =>
            \E t \in {SubSeq(RawChannel, a, b) : a \in 1..(Len(RawChannel) + 1),
                                                 b \in 0..Len(RawChannel)} :
                /\ IsTrimOf(t, RawChannel)
                /\ NormalizedChannel =
                     IF \E k \in KnownSpellings : LowerStr(k) = LowerStr(t)
                     THEN LowerStr(t) ELSE t

\* C8 amended: a value equal, when trimmed, to one of the four spellings of the
\* table (piccoma, Piccoma, cmoa, CMOA) becomes the lower-case identifier, any
\* other value, other mixes of case included, is only trimmed, and a missing or
\* empty value becomes the empty text, never null.
C8_ExactSpellings ==
    Normalized =>
        /\ notna(NormalizedChannel)
        /\ isna(RawChannel) => NormalizedChannel = EmptyStr
        /\ notna(RawChannel) =>
            \E t \in {SubSeq(RawChannel, a, b) : a \in 1..(Len(RawChannel) + 1),
                                                 b \in 0..Len(RawChannel)} :
                /\ IsTrimOf(t, RawChannel)
                /\ NormalizedChannel = IF t \in KnownSpellings THEN LowerStr(t) ELSE t

\* " CMOA" with whitespace around it becomes "cmoa"
C8_Witness ==
    /\ Normalized
    /\ notna(RawChannel)
    /\ Len(RawChannel) = Len(CMOA) + 2
    /\ SubSeq(RawChannel, 2, Len(CMOA) + 1) = CMOA
    /\ NormalizedChannel = cmoa

\* the titleKR cells of the cleaned rows of a title, in table order
KrOf(title_jp) == Column(SelectSeq(df_raw.rows, LAMBDA r : r.titleJP = title_jp), "titleKR")

\* C9 as stated: the titleKR of a title-summary entry is the first titleKR that is
\* not missing among the cleaned rows of its titleJP, in table order, and empty
\* only when every row of the group lacks one.
C9_FirstNonEmptyTitleKR ==
    Written("title_summary.json") =>
        \A e \in Range(title_summary) :
            LET kr == KrOf(e.titleJP)
            IN  IF \A i \in 1..Len(kr) : isna(kr[i])
                THEN e.titleKR = EmptyStr
                ELSE \E i \in 1..Len(kr) :
                        /\ notna(kr[i])
                        /\ \A j \in 1..(i - 1) : isna(kr[j])
                        /\ e.titleKR = kr[i]

\* C9 amended: the titleKR of a title-summary entry is the titleKR of the first
\* cleaned row of its titleJP, in table order, and empty when that row lacks one.
C9_FirstRowTitleKR ==
    Written("title_summary.json") =>
        \A e \in Range(title_summary) :
            LET kr == KrOf(e.titleJP)
            IN  /\ Len(kr) > 0
                /\ e.titleKR = IF isna(kr[1]) THEN EmptyStr ELSE kr[1]

\* a title whose first row lacks the titleKR that a later row has
C9_Witness ==
    /\ Written("title_summary.json")
    /\ \E e \in Range(title_summary) :
        /\ Len(KrOf(e.titleJP)) >= 2
        /\ isna(KrOf(e.titleJP)[1])
        /\ notna(KrOf(e.titleJP)[2])
        /\ e.titleKR = EmptyStr

\* C10: the files are written one at a time in the order daily_sales,
\* monthly_summary, title_summary, platform_summary, title_master, each right
\* after its view is computed and before the next view is: at every point, a
\* failed run included, the files written are a prefix of that order and no view
\* beyond them is computed, and a finished run has written all five.
C10_WrittenIsPrefix ==
    LET order == <<"daily_sales.json", "monthly_summary.json", "title_summary.json",
                   "platform_summary.json", "title_master.json">>
        views == <<daily_sales, monthly_summary, title_summary, platform_summary,
                   title_master>>
        step == <<"daily_sales", "monthly_summary", "title_summary", "platform_summary",
                  "title_master", "finish">>
    IN  /\ Len(written) <= 5
        /\ written = SubSeq(order, 1, Len(written))
        /\ \A k \in 1..5 : k > Len(written) => views[k] = <<>>
        /\ \A k \in 1..6 : pc = step[k] => Len(written) = k - 1
        /\ pc \in {"check_file", "read_raw", "read_title"} => written = <<>>
        /\ pc = "done" => Len(written) = 5

\* a run that fails in the title summary, two files written
C10_Witness ==
    /\ pc = "failed"
    /\ written = <<"daily_sales.json", "monthly_summary.json">>
    /\ daily_sales # <<>> /\ monthly_summary # <<>>

====
